---- MODULE Spec2Model ----
(***************************************************************************)
(* Model of the harvesting-and-scoring pipeline of allineato-demo.         *)
(*                                                                         *)
(*   evaluator : src/src/evaluator/index.ts (main, processBatch,           *)
(*               analyzeTherapist, TherapistMatchingService.scoreTherapist)*)
(*   scraper   : src/unnamed/part_005 (getDoctorLinksWithPagination,       *)
(*               scrapeMultipleDoctors)                                    *)
(*                                                                         *)
(* A behaviour runs one of the two programs (variable prog).  The          *)
(* evaluator may be terminated from outside after a checkpoint write and   *)
(* started again on the same input file; the output file survives.         *)
(***************************************************************************)
EXTENDS Integers, Sequences, FiniteSets, TLC

(***************************************************************************)
(* Program constants                                                       *)
(***************************************************************************)
MAX_RETRIES == 3
BATCH_SIZE == 3

(***************************************************************************)
(* Bounds of the model                                                     *)
(***************************************************************************)
MaxProfiles == 4
MaxNoData == 1
MaxRepeats == 1
MaxRuns == 2
MaxPagesArg == 3
MaxConcurrency == 2
MaxLiveProfiles == 4

MaxDoctors == 2

MaxRows == 2

MaxLinks == 3

(***************************************************************************)
(* Generic helpers on sequences                                            *)
(***************************************************************************)
Range(s) == {s[k] : k \in DOMAIN s}

Min(a, b) == IF a < b THEN a ELSE b

\* Array.prototype.slice(from, to) with 0-based, end-exclusive indices
Slice(s, from, to) == SubSeq(s, from + 1, Min(to, Len(s)))

NoDuplicates(s) == \A k, l \in DOMAIN s : k # l => s[k] # s[l]

(***************************************************************************)
(* Input of the evaluator: the extraction checkpoint (doctor-results.json) *)
(* Each element is {url, data: DoctorInfo | null, ...}.  Url names are     *)
(* taken up to renaming: the k-th distinct url of a list is UrlPool[k].    *)
(***************************************************************************)
UrlPool == <<"a", "b", "c", "d", "e", "f">>

UrlIndex(u) == CHOOSE k \in DOMAIN UrlPool : UrlPool[k] = u

Urls == {UrlPool[k] : k \in 1..Min(MaxProfiles, Len(UrlPool))}

Profile(u, d) == [url |-> u, data |-> d]

Canonical(us) ==
    \A k \in DOMAIN us :
        UrlIndex(us[k]) <= 1 + Cardinality({us[l] : l \in 1..(k - 1)})

\* number of list positions whose url already occurred at an earlier position
Repeats(us) == Len(us) - Cardinality(Range(us))

UrlLists ==
    UNION {{us \in [1..n -> Urls] : Canonical(us) /\ Repeats(us) <= MaxRepeats} :
           n \in 0..MaxProfiles}

ProfileLists ==
    UNION {{[k \in DOMAIN us |-> Profile(us[k], IF k \in nulls THEN "null" ELSE "info")] :
                nulls \in {ns \in SUBSET (DOMAIN us) : Cardinality(ns) <= MaxNoData}} :
           us \in UrlLists}

(***************************************************************************)
(* The remote scorer.  A response of generateContent is a thrown error, an *)
(* empty text, a text that is not JSON, or a JSON object with a score.     *)
(***************************************************************************)
Responses ==
    {[kind |-> "throw", score |-> 0],
     [kind |-> "empty", score |-> 0],
     [kind |-> "badjson", score |-> 0]}
    \cup {[kind |-> "json", score |-> s] : s \in {-1, 100, 101}}

TherapistScoreSchemaNoMax(obj) == obj.score >= 0

\* TherapistScoreSchema: score: z.number().min(0).max(100)
TherapistScoreSchema(obj) == obj.score >= 0 /\ obj.score <= 100

scoreTherapistAcceptingEmpty(resp) ==
    CASE resp.kind = "throw" -> [ok |-> FALSE, message |-> "remote error", score |-> 0]
      [] resp.kind = "empty" -> [ok |-> TRUE, message |-> "", score |-> 0]
      [] resp.kind = "badjson" ->
            [ok |-> FALSE, message |-> "JSON Parse error", score |-> 0]
      [] OTHER ->
            IF TherapistScoreSchema(resp)
            THEN [ok |-> TRUE, message |-> "", score |-> resp.score]
            ELSE [ok |-> FALSE, message |-> "ZodError: score out of range", score |-> 0]

\* TherapistMatchingService.scoreTherapist: the value it resolves to, or the
\* message of the error it rejects with
scoreTherapist(resp) ==
    CASE resp.kind = "throw" -> [ok |-> FALSE, message |-> "remote error", score |-> 0]
      [] resp.kind = "empty" ->
            [ok |-> FALSE, message |-> "Empty response from Gemini", score |-> 0]
      [] resp.kind = "badjson" ->
            [ok |-> FALSE, message |-> "JSON Parse error", score |-> 0]
      [] OTHER ->
            IF TherapistScoreSchema(resp)
            THEN [ok |-> TRUE, message |-> "", score |-> resp.score]
            ELSE [ok |-> FALSE, message |-> "ZodError: score out of range", score |-> 0]

(***************************************************************************)
(* analyzeTherapist                                                        *)
(***************************************************************************)
\* the record returned on success: {url, ...scoreResult}
SuccessRecord(p, scoreResult) ==
    [url |-> p.url, score |-> scoreResult.score, summary |-> "assessment",
     confidence |-> "high", error |-> <<>>]

\* the "Failed" object returned when the retries are used up
FailedRecord(p, message) ==
    [url |-> p.url, score |-> 0, summary |-> "ANALYSIS FAILED: " \o message,
     confidence |-> "low", error |-> <<message>>]

ShouldRetryInclusive(retryCount) == retryCount <= MAX_RETRIES

\* if (retryCount < MAX_RETRIES)
ShouldRetry(retryCount) == retryCount < MAX_RETRIES

\* an analyzeTherapist promise: its position (st), retryCount (rc), the
\* record it resolved to (rec), the number of scoreTherapist calls it has
\* issued (calls) and seen fail (fails), and for a resolved promise the
\* response of its last call (last)
NewTask == [st |-> "new", rc |-> 0, calls |-> 0, fails |-> 0, rec |-> <<>>,
            last |-> <<>>]

\* the catch block: sleep and retry, or log the name and return the Failed
\* object; reading data.name of a record whose data is null throws
Catch(p, t, message) ==
    IF ShouldRetry(t.rc) THEN [t EXCEPT !.st = "sleeping"]
    ELSE IF p.data = "null" THEN [t EXCEPT !.st = "rejected"]
    ELSE [t EXCEPT !.st = "done", !.rec = <<FailedRecord(p, message)>>]

\* the try block up to the await of service.scoreTherapist; the log line
\* reads data.name first
Enter(p, t) ==
    IF p.data = "null"
    THEN Catch(p, t, "null is not an object")
    ELSE [t EXCEPT !.st = "calling", !.calls = @ + 1]

SettleDroppingFirstSuccess(p, t, resp) ==
    LET r == scoreTherapist(resp)
        c == Catch(p, [t EXCEPT !.fails = @ + 1], r.message)
    IN  IF r.ok
        THEN IF t.rc = 0 THEN [t EXCEPT !.st = "sleeping"]
             ELSE [t EXCEPT !.st = "done", !.rec = <<SuccessRecord(p, r)>>,
                            !.last = <<resp>>]
        ELSE IF c.st = "done" THEN [c EXCEPT !.last = <<resp>>] ELSE c

\* the continuation of the await of service.scoreTherapist
Settle(p, t, resp) ==
    LET r == scoreTherapist(resp)
        c == Catch(p, [t EXCEPT !.fails = @ + 1], r.message)
    IN  IF r.ok
        THEN [t EXCEPT !.st = "done", !.rec = <<SuccessRecord(p, r)>>,
                       !.last = <<resp>>]
        ELSE IF c.st = "done" THEN [c EXCEPT !.last = <<resp>>] ELSE c

\* the records of the successes in input order, then those of the failures
BatchResultsFailuresLast(ts) ==
    LET recs == [k \in DOMAIN ts |-> ts[k].rec[1]]
        succeeded(r) == r.error = <<>>
        failed(r) == r.error # <<>>
    IN  SelectSeq(recs, succeeded) \o SelectSeq(recs, failed)

\* processBatch: await Promise.all(profiles.map(...)) resolves to the records
\* in the order of the promises, that is of the batch's profiles
BatchResults(ts) == [k \in DOMAIN ts |-> ts[k].rec[1]]

(***************************************************************************)
(* main of the evaluator                                                   *)
(***************************************************************************)
\* part_002: AnalysisSchema.parse(JSON.parse(response.text)) after the test
\* of an empty text; AnalysisSchema has score: z.number().min(0).max(100)
AnalysisOk(resp) == resp.kind = "json" /\ resp.score >= 0 /\ resp.score <= 100

\* part_002: {name: p.data.name, url: p.url, ...analysis}
SeqRecord(p, analysis) ==
    [name |-> "name", url |-> p.url, score |-> analysis.score, confidence |-> "high"]

\* what the text of an existing output file can be: a JSON array of
\* records, text that is not JSON, or JSON that is not an array
FileSyntaxes == {"array", "garbage", "object"}

LoadResultsUncaught(syntax, content) ==
    IF syntax = "array" THEN [crashed |-> FALSE, results |-> content]
    ELSE [crashed |-> TRUE, results |-> <<>>]

\* main, lines 205-215: results = JSON.parse(text) inside try/catch, then
\* results.map, which throws when the parsed value is not an array
LoadResults(syntax, content) ==
    CASE syntax = "array" -> [crashed |-> FALSE, results |-> content]
      [] syntax = "garbage" -> [crashed |-> FALSE, results |-> <<>>]
      [] OTHER -> [crashed |-> TRUE, results |-> <<>>]

\* only the records of the batch that just finished
SnapshotOfBatch(res, n) == SubSeq(res, Len(res) - n + 1, Len(res))

\* main, line 243: the text written is JSON.stringify of the whole results
\* array, whatever the size n of the batch that just finished
Snapshot(res, n) == res

ProfilesToAnalyzeUnfiltered(ps, res) == ps

\* profiles.filter((p) => !analyzedUrls.has(p.url))
ProfilesToAnalyze(ps, res) ==
    LET analyzedUrls == {r.url : r \in Range(res)}
        keep(p) == p.url \notin analyzedUrls
    IN  SelectSeq(ps, keep)

RECURSIVE BatchesFromWide(_, _)
BatchesFromWide(ps, i) ==
    IF i < Len(ps)
    THEN <<Slice(ps, i, i + BATCH_SIZE + 1)>> \o BatchesFromWide(ps, i + BATCH_SIZE + 1)
    ELSE <<>>

\* for (i = 0; i < n; i += BATCH_SIZE) batches.push(slice(i, i + BATCH_SIZE))
RECURSIVE BatchesFrom(_, _)
BatchesFrom(ps, i) ==
    IF i < Len(ps)
    THEN <<Slice(ps, i, i + BATCH_SIZE)>> \o BatchesFrom(ps, i + BATCH_SIZE)
    ELSE <<>>

Batches(ps) == BatchesFrom(ps, 0)

\* results.sort((a, b) => b.score - a.score): stable, descending by score
RECURSIVE InsertByScore(_, _)
InsertByScore(sorted, r) ==
    IF sorted = <<>> THEN <<r>>
    ELSE IF Head(sorted).score >= r.score
         THEN <<Head(sorted)>> \o InsertByScore(Tail(sorted), r)
         ELSE <<r>> \o sorted

RECURSIVE SortByScore(_)
SortByScore(res) ==
    IF res = <<>> THEN <<>>
    ELSE InsertByScore(SortByScore(SubSeq(res, 1, Len(res) - 1)), res[Len(res)])

(***************************************************************************)
(* The scraper: link lists of the listing pages.  Link names are taken up  *)
(* to renaming: the k-th distinct link of a walk is LinkPool[k].           *)
(***************************************************************************)
LinkPool == <<"x", "y", "z", "w", "v", "u">>

LinkIndex(u) == CHOOSE k \in DOMAIN LinkPool : LinkPool[k] = u

Links == {LinkPool[k] : k \in 1..Min(MaxLinks, Len(LinkPool))}

LinkLists == UNION {[1..n -> Links] : n \in 0..MaxLinks}

\* links whose new names continue the names seen so far in pool order
CanonicalLinks(seen, links) ==
    \A k \in DOMAIN links :
        LinkIndex(links[k]) <=
            1 + Cardinality(seen \cup {links[l] : l \in 1..(k - 1)})

NewUniqueLinksUnfiltered(links, seen) == links

\* links.filter((link) => !allUniqueUrls.has(link))
NewUniqueLinks(links, seen) ==
    LET fresh(link) == link \notin seen
    IN  SelectSeq(links, fresh)

\* links.slice(i, i + concurrency)
ScrapeBatch(links, i, n) == Slice(links, i, i + n)

\* the callback of batch.map up to its first await
ScrapeEnter(url, done) ==
    IF url \in done
    THEN [st |-> "skipped", rec |-> <<>>]
    ELSE [st |-> "stagger", rec |-> <<>>]

ScrapeLaunch(batch, done) == [k \in DOMAIN batch |-> ScrapeEnter(batch[k], done)]

\* the DoctorResult of a url whose extraction succeeded
ScrapedRecord(url, pageNumber) ==
    [url |-> url, data |-> "info", error |-> <<>>, pageNumber |-> pageNumber]

\* the DoctorResult of a url whose extraction threw
ScrapeErrorRecord(url, pageNumber, message) ==
    [url |-> url, data |-> "null", error |-> <<message>>, pageNumber |-> pageNumber]

NonNullResultsWithData(ts) ==
    LET settled == [k \in DOMAIN ts |-> ts[k].rec]
        hasData(r) == r # <<>> /\ r[1].data # "null"
        kept == SelectSeq(settled, hasData)
    IN  [k \in DOMAIN kept |-> kept[k][1]]

\* batchResults.filter((r) => r !== null)
NonNullResults(ts) ==
    LET settled == [k \in DOMAIN ts |-> ts[k].rec]
        nonNull(r) == r # <<>>
        kept == SelectSeq(settled, nonNull)
    IN  [k \in DOMAIN kept |-> kept[k][1]]

\* doctor-results.json before a session: absent, or left by an earlier
\* session that scraped the first link of the listing
PriorDoctorFiles == {<<>>, <<ScrapedRecord(LinkPool[1], 1)>>}

\* number of raw links on the listing pages fetched so far; a listing has
\* at most MaxLinks links in all
RECURSIVE RawTotal(_)
RawTotal(log) == IF log = <<>> THEN 0 ELSE Head(log).count + RawTotal(Tail(log))

PagesAfterSettleLeakOnError(n, ok) == IF ok THEN n - 1 ELSE n

\* scrapeDoctorInfo, finally: if (page) await page.close(), whether the
\* function returns (ok) or rethrows
PagesAfterSettle(n, ok) == n - 1

NextBatchStartStuck(i, n) == i

\* for (let i = 0; i < links.length; i += concurrency)
NextBatchStart(i, n) == i + n

StopWalkOnNoNewLinks(links, newUniqueLinks) == Len(newUniqueLinks) = 0

\* if (links.length === 0) break
StopWalk(links, newUniqueLinks) == Len(links) = 0

(***************************************************************************)
(* The server (part_001): /api/therapists.  A JSON value is a pair of its  *)
(* type t and a number v: the number itself, or for a string its length    *)
(* (0 for the empty string).  data: null of a record is <<>>, a data       *)
(* object is <<fields>>.                                                   *)
(***************************************************************************)
Undefined == [t |-> "undefined", v |-> 0]

Null == [t |-> "null", v |-> 0]

Num(n) == [t |-> "number", v |-> n]

Str(n) == [t |-> "string", v |-> n]

\* JavaScript truthiness of a value: 0 and "" are falsy, like null and
\* undefined
Truthy(x) == x.t \in {"number", "string"} /\ x.v # 0

\* x || null
OrNull(x) == IF Truthy(x) THEN x ELSE Null

Fields == {"rating", "reviewCount", "avatar"}

\* the data objects of doctor-results.json: rating and avatar may be absent,
\* null, falsy (0, "") or a value as scrapeDoctorInfo parses them
DoctorDatas ==
    {[rating |-> a, reviewCount |-> b, avatar |-> c] :
        a \in {Undefined, Num(0), Num(4)},
        b \in {Null, Num(0), Num(12)},
        c \in {Str(0), Str(1)}}

DoctorRecords ==
    {[url |-> u, data |-> d] :
        u \in {UrlPool[1], UrlPool[2]},
        d \in {<<>>} \cup {<<x>> : x \in DoctorDatas}}

DoctorFiles == UNION {[1..n -> DoctorRecords] : n \in 0..MaxDoctors}

\* the rows of analysis_results.json
AnalysisFiles ==
    UNION {[1..n -> {[url |-> u, score |-> 50] : u \in {UrlPool[1], UrlPool[2]}}] :
           n \in 0..MaxRows}

\* new Map(doctorData.map((doc) => [doc.url, doc.data])).get(url)?.[field]:
\* the last record of a url wins; no record, data null and an absent field
\* give undefined
DoctorField(doctorData, url, field) ==
    LET at == {k \in DOMAIN doctorData : doctorData[k].url = url}
        last == CHOOSE k \in at : \A l \in at : l <= k
    IN  IF at = {} THEN Undefined
        ELSE IF doctorData[last].data = <<>> THEN Undefined
        ELSE doctorData[last].data[1][field]

\* analysisData.map((therapist) => ({...therapist, rating: ... || null,
\* reviewCount: ... || null, avatar: ... || null}))
MergedData(analysisData, doctorData) ==
    [k \in DOMAIN analysisData |->
        [url |-> analysisData[k].url,
         score |-> analysisData[k].score,
         rating |-> OrNull(DoctorField(doctorData, analysisData[k].url, "rating")),
         reviewCount |->
             OrNull(DoctorField(doctorData, analysisData[k].url, "reviewCount")),
         avatar |-> OrNull(DoctorField(doctorData, analysisData[k].url, "avatar"))]]

VARIABLES
    prog,        \* the program this behaviour runs
    apiKey,      \* process.env.GEMINI_API_KEY is set
    exitCode,    \* <<status>> once the exit status of the process is decided
    mergedData,  \* server: <<body>> once /api/therapists has answered
    outOfOrder,  \* in the batch launched last, an item settled before an
                 \* item at a lower index did
    profiles,    \* content of the input file
    file,        \* content of the output file (a JSON array of records)
    fileSyntax,  \* what the text of the output file parses to
    pc,          \* position of main
    results,     \* main: results
    loaded,      \* the records main restored from the output file
    batches,     \* main: batches
    bi,          \* main: index i of the batch loop
    tasks,       \* the analyzeTherapist promises of the current batch
    scored,      \* urls for which scoreTherapist was called in this run
    runs,        \* number of times the job was started
    kills,       \* positions at which earlier runs were terminated
    concurrency, \* scrapeMultipleDoctors: concurrency
    maxPages,    \* scrapeMultipleDoctors: maxPages
    spc,         \* position of scrapeMultipleDoctors
    pageNum,     \* getDoctorLinksWithPagination: pageNum
    allPages,    \* getDoctorLinksWithPagination: allPages
    allUniqueUrls, \* getDoctorLinksWithPagination: allUniqueUrls
    pageIdx,     \* scrapeMultipleDoctors: index of pageData in allPages
    si,          \* scrapeMultipleDoctors: index i of the batch loop
    stasks,      \* the batchPromises of the current batch
    sresults,    \* scrapeMultipleDoctors: results
    scrapedUrls, \* scrapeMultipleDoctors: scrapedUrls
    fetchLog,    \* the listing pages the walk has fetched, in order
    scrapeCalls, \* number of scrapeDoctorInfo calls per url in this session
    doctorFile,  \* content of doctor-results.json
    openPages,   \* pages opened by scrapeDoctorInfo and not closed yet
    browserOpen  \* scrapeMultipleDoctors: the launched browser is not closed

evars == <<profiles, file, fileSyntax, pc, results, loaded, batches, bi, tasks, scored,
           runs, kills>>

svars == <<concurrency, maxPages, spc, pageNum, allPages, allUniqueUrls,
           pageIdx, si, stasks, sresults, scrapedUrls, fetchLog, scrapeCalls,
           doctorFile, openPages, browserOpen>>

vars == <<prog, apiKey, exitCode, mergedData, outOfOrder, evars, svars>>

memory == <<results, loaded, batches, bi, tasks, scored>>

Init ==
    /\ \/ /\ prog = "evaluator"
          /\ apiKey \in BOOLEAN
          /\ profiles \in ProfileLists
          /\ fileSyntax \in FileSyntaxes
          /\ concurrency = 1
          /\ maxPages = 1
          /\ spc = "idle"
          /\ doctorFile = <<>>
          /\ browserOpen = FALSE
       \/ /\ prog = "sequential"
          /\ apiKey \in BOOLEAN
          /\ profiles \in ProfileLists
          /\ fileSyntax = "array"
          /\ concurrency = 1
          /\ maxPages = 1
          /\ spc = "idle"
          /\ doctorFile = <<>>
          /\ browserOpen = FALSE
       \/ /\ prog = "server"
          /\ apiKey = TRUE
          /\ profiles = <<>>
          /\ fileSyntax = "array"
          /\ concurrency = 1
          /\ maxPages = 1
          /\ spc = "idle"
          /\ doctorFile \in DoctorFiles
          /\ browserOpen = FALSE
       \/ /\ prog = "scraper"
          /\ apiKey = TRUE
          /\ profiles = <<>>
          /\ fileSyntax = "array"
          /\ concurrency \in 1..MaxConcurrency
          /\ maxPages \in 1..MaxPagesArg
          /\ spc = "walk"
          /\ doctorFile \in PriorDoctorFiles
          /\ browserOpen = TRUE
    /\ fetchLog = <<>>
    /\ scrapeCalls = [u \in Links |-> 0]
    /\ openPages = 0
    /\ pageNum = 1
    /\ allPages = <<>>
    /\ allUniqueUrls = {}
    /\ pageIdx = 0
    /\ si = 0
    /\ stasks = <<>>
    /\ sresults = <<>>
    /\ scrapedUrls = {}
    /\ file \in IF prog = "server" THEN AnalysisFiles ELSE {<<>>}
    /\ mergedData = <<>>
    /\ outOfOrder = FALSE
    /\ pc = "start"
    /\ results = <<>>
    /\ loaded = <<>>
    /\ batches = <<>>
    /\ bi = 0
    /\ tasks = <<>>
    /\ scored = {}
    /\ runs = 1
    /\ kills = <<>>
    /\ exitCode = <<>>

\* processBatch: profiles.map(analyzeTherapist), each promise run up to its
\* first await
Launch(batch) == [k \in DOMAIN batch |-> Enter(batch[k], NewTask)]

CalledUrls(batch, ts) == {batch[k].url : k \in {l \in DOMAIN ts : ts[l].calls > 0}}

\* main, lines 175-240: check the key, load the state, filter, exit or start
\* batch 1.  A rejection of main is logged by main().catch(console.error)
\* and the process ends with status 0
StartRun ==
    /\ prog = "evaluator"
    /\ pc = "start"
    /\ IF ~apiKey
       THEN /\ pc' = "nokey"
            /\ exitCode' = <<1>>
            /\ UNCHANGED <<results, loaded, batches, bi, tasks, scored>>
       ELSE LET load == LoadResults(fileSyntax, file)
                todo == ProfilesToAnalyze(profiles, load.results)
            IN  /\ results' = load.results
                /\ loaded' = load.results
                /\ IF load.crashed
                   THEN /\ pc' = "crashed"
                        /\ exitCode' = <<0>>
                        /\ UNCHANGED <<batches, bi, tasks, scored>>
                   ELSE IF todo = <<>>
                   THEN /\ pc' = "exited"
                        /\ exitCode' = <<0>>
                        /\ UNCHANGED <<batches, bi, tasks, scored>>
                   ELSE /\ batches' = Batches(todo)
                        /\ bi' = 0
                        /\ tasks' = Launch(batches'[1])
                        /\ scored' = CalledUrls(batches'[1], tasks')
                        /\ pc' = "await"
                        /\ UNCHANGED exitCode
    /\ outOfOrder' = FALSE
    /\ UNCHANGED <<prog, apiKey, mergedData, svars, fileSyntax, profiles, file, runs, kills>>

Running == pc \in {"await", "failed"}

\* the remote call of item k settles
Respond(k, resp) ==
    /\ prog = "evaluator"
    /\ Running
    /\ k \in DOMAIN tasks
    /\ tasks[k].st = "calling"
    /\ tasks' = [tasks EXCEPT ![k] = Settle(batches[bi + 1][k], tasks[k], resp)]
    /\ outOfOrder' = (outOfOrder \/ (tasks'[k].st = "done"
                                      /\ \E j \in 1..(k - 1) : tasks[j].st # "done"))
    /\ UNCHANGED <<prog, apiKey, mergedData, exitCode, svars, fileSyntax, profiles, file, pc, results, loaded, batches, bi,
                   scored, runs, kills>>

\* Bun.sleep(RETRY_DELAY) of item k ends: analyzeTherapist(retryCount + 1)
Wake(k) ==
    /\ prog = "evaluator"
    /\ Running
    /\ k \in DOMAIN tasks
    /\ tasks[k].st = "sleeping"
    /\ LET p == batches[bi + 1][k]
           t == Enter(p, [tasks[k] EXCEPT !.rc = @ + 1])
       IN  /\ tasks' = [tasks EXCEPT ![k] = t]
           /\ scored' = IF t.st = "calling" THEN scored \cup {p.url} ELSE scored
           \* a rejected promise rejects Promise.all, processBatch and main
           /\ pc' = IF t.st = "rejected" THEN "failed" ELSE pc
           /\ exitCode' = IF t.st = "rejected" THEN <<0>> ELSE exitCode
    /\ UNCHANGED <<prog, apiKey, mergedData, outOfOrder, svars, fileSyntax, profiles, file, results, loaded, batches, bi, runs, kills>>

\* Promise.all resolves; results.push(...batchResults); Bun.write is started
JoinBatch ==
    /\ prog = "evaluator"
    /\ pc = "await"
    /\ \A k \in DOMAIN tasks : tasks[k].st = "done"
    /\ results' = results \o BatchResults(tasks)
    /\ tasks' = <<>>
    /\ pc' = "write"
    /\ UNCHANGED <<prog, apiKey, mergedData, outOfOrder, exitCode, svars, fileSyntax, profiles, file, loaded, batches, bi, scored, runs, kills>>

\* the inter-batch sleep starts while the output file is still unwritten
WriteCheckpointDeferred ==
    /\ prog = "evaluator"
    /\ pc = "write"
    /\ pc' = IF bi < Len(batches) - 1 THEN "delay" ELSE "finalwrite"
    /\ UNCHANGED <<prog, apiKey, mergedData, outOfOrder, exitCode, svars, fileSyntax, profiles, file, results, loaded, batches, bi,
                   tasks, scored, runs, kills>>

\* Bun.write(outputFile, results) completes; then the inter-batch sleep, or
\* after the last batch the final sort and the start of the last write
WriteCheckpoint ==
    /\ prog = "evaluator"
    /\ pc = "write"
    /\ file' = Snapshot(results, Len(batches[bi + 1]))
    /\ fileSyntax' = "array"
    /\ IF bi < Len(batches) - 1
       THEN /\ pc' = "delay"
            /\ UNCHANGED results
       ELSE /\ results' = SortByScore(results)
            /\ pc' = "finalwrite"
    /\ UNCHANGED <<prog, apiKey, mergedData, outOfOrder, exitCode, svars, profiles, loaded, batches, bi, tasks, scored, runs, kills>>

\* Bun.sleep(BATCH_DELAY) ends: i++ and processBatch of the next batch
NextBatch ==
    /\ prog = "evaluator"
    /\ pc = "delay"
    /\ bi' = bi + 1
    /\ outOfOrder' = FALSE
    /\ tasks' = Launch(batches[bi' + 1])
    /\ scored' = scored \cup CalledUrls(batches[bi' + 1], tasks')
    /\ pc' = "await"
    /\ UNCHANGED <<prog, apiKey, mergedData, exitCode, svars, fileSyntax, profiles, file, results, loaded, batches, runs, kills>>

\* the write of the sorted results completes
FinalWrite ==
    /\ prog = "evaluator"
    /\ pc = "finalwrite"
    /\ file' = results
    /\ fileSyntax' = "array"
    /\ pc' = "done"
    /\ exitCode' = <<0>>
    /\ UNCHANGED <<prog, apiKey, mergedData, outOfOrder, svars, profiles, results, loaded, batches, bi, tasks, scored,
                   runs, kills>>

\* the process is terminated from outside; only the files survive.  A
\* termination at any other await leaves the output file of the last
\* completed write, so these two positions yield every file a terminated
\* run can leave behind
Terminate ==
    /\ prog = "evaluator"
    /\ pc \in {"delay", "finalwrite"}
    /\ kills' = Append(kills, pc)
    /\ pc' = "killed"
    /\ outOfOrder' = FALSE
    /\ results' = <<>>
    /\ loaded' = <<>>
    /\ batches' = <<>>
    /\ bi' = 0
    /\ tasks' = <<>>
    /\ scored' = {}
    /\ UNCHANGED <<prog, apiKey, mergedData, exitCode, svars, fileSyntax, profiles, file, runs>>

\* the job is started again with the same input file
Restart ==
    /\ prog = "evaluator"
    /\ pc \in {"killed", "done", "exited"}
    /\ runs < MaxRuns
    /\ runs' = runs + 1
    /\ pc' = "start"
    /\ outOfOrder' = FALSE
    /\ exitCode' = <<>>
    /\ results' = <<>>
    /\ loaded' = <<>>
    /\ batches' = <<>>
    /\ bi' = 0
    /\ tasks' = <<>>
    /\ scored' = {}
    /\ UNCHANGED <<prog, apiKey, mergedData, svars, fileSyntax, profiles, file, kills>>

(***************************************************************************)
(* main of the sequential scorer (part_002).  It shares the names of its   *)
(* state with the evaluator: profiles, results, the output file and the    *)
(* loop index i (bi).                                                      *)
(***************************************************************************)
\* the loop reaches index i with results res: after the last profile the
\* final sort and the start of the last write; else the log line reads
\* p.data.name outside the try, and the remote call is issued
SeqIterate(i, res) ==
    /\ bi' = i
    /\ IF i >= Len(profiles)
       THEN /\ results' = SortByScore(res)
            /\ pc' = "finalwrite"
            /\ UNCHANGED <<scored, exitCode>>
       ELSE IF profiles[i + 1].data = "null"
       THEN /\ results' = res
            /\ pc' = "failed"
            /\ exitCode' = <<0>>
            /\ UNCHANGED scored
       ELSE /\ results' = res
            /\ pc' = "await"
            /\ scored' = scored \cup {profiles[i + 1].url}
            /\ UNCHANGED exitCode

\* main up to the first remote call: a missing key throws, main rejects and
\* main().catch(console.error) logs the error; the process ends with status 0
SeqStart ==
    /\ prog = "sequential"
    /\ pc = "start"
    /\ IF ~apiKey
       THEN /\ pc' = "nokey"
            /\ exitCode' = <<0>>
            /\ UNCHANGED <<results, bi, scored>>
       ELSE SeqIterate(0, <<>>)
    /\ UNCHANGED <<prog, apiKey, mergedData, outOfOrder, svars, fileSyntax, profiles, file, loaded, batches, tasks,
                   runs, kills>>

\* generateContent of profile i settles: a valid analysis is pushed and the
\* incremental write starts; anything else is logged by the catch and the
\* loop goes on
SeqRespond(resp) ==
    /\ prog = "sequential"
    /\ pc = "await"
    /\ IF AnalysisOk(resp)
       THEN /\ results' = Append(results, SeqRecord(profiles[bi + 1], resp))
            /\ pc' = "write"
            /\ UNCHANGED <<bi, scored, exitCode>>
       ELSE SeqIterate(bi + 1, results)
    /\ UNCHANGED <<prog, apiKey, mergedData, outOfOrder, svars, fileSyntax, profiles, file, loaded, batches, tasks,
                   runs, kills>>

\* the incremental Bun.write completes, then the 500 ms delay, then i++
SeqWrite ==
    /\ prog = "sequential"
    /\ pc = "write"
    /\ file' = results
    /\ SeqIterate(bi + 1, results)
    /\ UNCHANGED <<prog, apiKey, mergedData, outOfOrder, svars, fileSyntax, profiles, loaded, batches, tasks,
                   runs, kills>>

\* the write of the sorted results completes and main returns
SeqFinalWrite ==
    /\ prog = "sequential"
    /\ pc = "finalwrite"
    /\ file' = results
    /\ pc' = "done"
    /\ exitCode' = <<0>>
    /\ UNCHANGED <<prog, apiKey, mergedData, outOfOrder, svars, fileSyntax, profiles, results, loaded, batches, bi,
                   tasks, scored, runs, kills>>

(***************************************************************************)
(* fetch of the server                                                     *)
(***************************************************************************)
\* GET /api/therapists: both files are read and the merged rows are sent
GetTherapists ==
    /\ prog = "server"
    /\ pc = "start"
    /\ mergedData' = <<MergedData(file, doctorFile)>>
    /\ pc' = "served"
    /\ UNCHANGED <<prog, apiKey, exitCode, outOfOrder, svars, fileSyntax, profiles, file,
                   results, loaded, batches, bi, tasks, scored, runs, kills>>

(***************************************************************************)
(* getDoctorLinksWithPagination and scrapeMultipleDoctors                  *)
(***************************************************************************)
\* the page loop ends at the first failed page
PageFailedStopsWalk ==
    /\ UNCHANGED <<allPages, allUniqueUrls, pageNum>>
    /\ fetchLog' = Append(fetchLog,
                          [pageNumber |-> pageNum, ok |-> FALSE, raw |-> {},
                           count |-> 0])
    /\ spc' = "walked"

\* page.goto or $$eval of page pageNum throws: the catch inside the loop
\* logs the error and the loop goes on with pageNum + 1
PageFailed ==
    /\ UNCHANGED <<allPages, allUniqueUrls>>
    /\ fetchLog' = Append(fetchLog,
                          [pageNumber |-> pageNum, ok |-> FALSE, raw |-> {},
                           count |-> 0])
    /\ pageNum' = pageNum + 1
    /\ spc' = IF pageNum' <= maxPages THEN "walk" ELSE "walked"

\* page pageNum loads and $$eval yields its raw links (out)
PageLoaded(out) ==
    /\ CanonicalLinks(allUniqueUrls, out)
    /\ RawTotal(fetchLog) + Len(out) <= MaxLinks
    /\ fetchLog' = Append(fetchLog,
                          [pageNumber |-> pageNum, ok |-> TRUE, raw |-> Range(out),
                           count |-> Len(out)])
    /\ LET newUniqueLinks == NewUniqueLinks(out, allUniqueUrls)
       IN  /\ allUniqueUrls' = allUniqueUrls \cup Range(newUniqueLinks)
           /\ allPages' =
                IF Len(newUniqueLinks) > 0
                THEN Append(allPages,
                            [links |-> newUniqueLinks, pageNumber |-> pageNum])
                ELSE allPages
           /\ IF StopWalk(out, newUniqueLinks)
              THEN /\ pageNum' = pageNum
                   /\ spc' = "walked"
              ELSE /\ pageNum' = pageNum + 1
                   /\ spc' = IF pageNum' <= maxPages THEN "walk" ELSE "walked"

\* one iteration of the page loop: page.goto and $$eval either throw
\* (loadedOk = FALSE) or yield the raw links of the page (out)
FetchPage(loadedOk, out) ==
    /\ prog = "scraper"
    /\ spc = "walk"
    /\ pageNum <= maxPages
    /\ IF loadedOk THEN PageLoaded(out) ELSE PageFailed
    /\ UNCHANGED <<prog, apiKey, mergedData, outOfOrder, exitCode, evars, concurrency, maxPages, pageIdx, si, stasks,
                   sresults, scrapedUrls, scrapeCalls, doctorFile, openPages,
                   browserOpen>>

\* the walk has returned allPages: return [] or start the first batch
StartScrape ==
    /\ prog = "scraper"
    /\ spc = "walked"
    /\ IF Len(allPages) = 0
       THEN /\ spc' = "returned"
            /\ browserOpen' = FALSE
            /\ UNCHANGED <<pageIdx, si, stasks, outOfOrder>>
       ELSE /\ pageIdx' = 1
            /\ si' = 0
            /\ stasks' = ScrapeLaunch(ScrapeBatch(allPages[1].links, 0, concurrency),
                                      scrapedUrls)
            /\ spc' = "batch"
            /\ outOfOrder' = FALSE
            /\ UNCHANGED browserOpen
    /\ UNCHANGED <<prog, apiKey, mergedData, exitCode, evars, concurrency, maxPages, pageNum, allPages,
                   allUniqueUrls, sresults, scrapedUrls, fetchLog, scrapeCalls,
                   doctorFile, openPages>>

\* Bun.sleep(200 * index) of item k ends: scrapeDoctorInfo(url) is called and
\* opens its page
StaggerElapsed(k) ==
    /\ prog = "scraper"
    /\ spc = "batch"
    /\ k \in DOMAIN stasks
    /\ stasks[k].st = "stagger"
    /\ stasks' = [stasks EXCEPT ![k].st = "scraping"]
    /\ LET url == ScrapeBatch(allPages[pageIdx].links, si, concurrency)[k]
       IN  scrapeCalls' = [scrapeCalls EXCEPT ![url] = @ + 1]
    /\ openPages' = openPages + 1
    /\ UNCHANGED <<prog, apiKey, mergedData, outOfOrder, exitCode, evars, concurrency, maxPages, spc, pageNum, allPages,
                   allUniqueUrls, pageIdx, si, sresults, scrapedUrls, fetchLog,
                   doctorFile, browserOpen>>

\* scrapeDoctorInfo of item k returns (ok) or throws
ScrapeSettle(k, ok) ==
    /\ prog = "scraper"
    /\ spc = "batch"
    /\ k \in DOMAIN stasks
    /\ stasks[k].st = "scraping"
    /\ LET pageData == allPages[pageIdx]
           url == ScrapeBatch(pageData.links, si, concurrency)[k]
           rec == IF ok THEN ScrapedRecord(url, pageData.pageNumber)
                  ELSE ScrapeErrorRecord(url, pageData.pageNumber, "navigation failed")
       IN  /\ scrapedUrls' = scrapedUrls \cup {url}
           /\ stasks' = [stasks EXCEPT ![k] = [st |-> "settled", rec |-> <<rec>>]]
    /\ openPages' = PagesAfterSettle(openPages, ok)
    /\ outOfOrder' = (outOfOrder \/ \E j \in 1..(k - 1) :
                                        stasks[j].st \in {"stagger", "scraping"})
    /\ UNCHANGED <<prog, apiKey, mergedData, exitCode, evars, concurrency, maxPages, spc, pageNum, allPages,
                   allUniqueUrls, pageIdx, si, sresults, fetchLog, scrapeCalls,
                   doctorFile, browserOpen>>

\* Promise.all resolves; results.push; then the inter-batch wait, the first
\* batch of the next page, or the return
ScrapeJoin ==
    /\ prog = "scraper"
    /\ spc = "batch"
    /\ \A k \in DOMAIN stasks : stasks[k].st \in {"settled", "skipped"}
    /\ sresults' = sresults \o NonNullResults(stasks)
    /\ IF si + concurrency < Len(allPages[pageIdx].links)
       THEN /\ spc' = "wait"
            /\ stasks' = <<>>
            /\ UNCHANGED <<pageIdx, si, browserOpen, outOfOrder>>
       ELSE IF pageIdx < Len(allPages)
       THEN /\ pageIdx' = pageIdx + 1
            /\ si' = 0
            /\ stasks' = ScrapeLaunch(
                              ScrapeBatch(allPages[pageIdx'].links, 0, concurrency),
                              scrapedUrls)
            /\ spc' = "batch"
            /\ outOfOrder' = FALSE
            /\ UNCHANGED browserOpen
       ELSE /\ spc' = "returned"
            /\ stasks' = <<>>
            /\ browserOpen' = FALSE
            /\ UNCHANGED <<pageIdx, si, outOfOrder>>
    /\ UNCHANGED <<prog, apiKey, mergedData, exitCode, evars, concurrency, maxPages, pageNum, allPages,
                   allUniqueUrls, scrapedUrls, fetchLog, scrapeCalls, doctorFile,
                   openPages>>

\* the wait between two batches of a page ends: i += concurrency
ScrapeNextBatch ==
    /\ prog = "scraper"
    /\ spc = "wait"
    /\ si' = NextBatchStart(si, concurrency)
    /\ outOfOrder' = FALSE
    /\ stasks' = ScrapeLaunch(ScrapeBatch(allPages[pageIdx].links, si', concurrency),
                              scrapedUrls)
    /\ spc' = "batch"
    /\ UNCHANGED <<prog, apiKey, mergedData, exitCode, evars, concurrency, maxPages, pageNum, allPages,
                   allUniqueUrls, pageIdx, sresults, scrapedUrls, fetchLog,
                   scrapeCalls, doctorFile, openPages, browserOpen>>

\* main of the scraper: scrapeMultipleDoctors has returned; the results are
\* written to doctor-results.json
SaveResults ==
    /\ prog = "scraper"
    /\ spc = "returned"
    /\ doctorFile' = sresults
    /\ spc' = "saved"
    /\ UNCHANGED <<prog, apiKey, mergedData, outOfOrder, exitCode, evars, concurrency, maxPages, pageNum, allPages,
                   allUniqueUrls, pageIdx, si, stasks, sresults, scrapedUrls,
                   fetchLog, scrapeCalls, openPages, browserOpen>>

Next ==
    \/ \E out \in LinkLists : FetchPage(TRUE, out)
    \/ FetchPage(FALSE, <<>>)
    \/ StartScrape
    \/ \E k \in 1..MaxConcurrency : StaggerElapsed(k)
    \/ \E k \in 1..MaxConcurrency, ok \in BOOLEAN : ScrapeSettle(k, ok)
    \/ ScrapeJoin
    \/ ScrapeNextBatch
    \/ SaveResults
    \/ GetTherapists
    \/ SeqStart
    \/ \E resp \in Responses : SeqRespond(resp)
    \/ SeqWrite
    \/ SeqFinalWrite
    \/ StartRun
    \/ \E k \in 1..BATCH_SIZE, resp \in Responses : Respond(k, resp)
    \/ \E k \in 1..BATCH_SIZE : Wake(k)
    \/ JoinBatch
    \/ WriteCheckpoint
    \/ NextBatch
    \/ FinalWrite
    \/ Terminate
    \/ Restart

Spec == Init /\ [][Next]_vars

\* for termination a response matters only as a success or a failure
LiveResponses == {[kind |-> "throw", score |-> 0], [kind |-> "json", score |-> 100]}

\* the steps the evaluator takes by itself: every remote call settles, every
\* timer fires and every write completes
EvaluatorStep ==
    \/ StartRun
    \/ \E k \in 1..BATCH_SIZE, resp \in LiveResponses : Respond(k, resp)
    \/ \E k \in 1..BATCH_SIZE : Wake(k)
    \/ JoinBatch
    \/ WriteCheckpoint
    \/ NextBatch
    \/ FinalWrite

\* the steps of the scraper: every page fetch and every extraction returns
\* or throws and every timer fires
ScraperStep ==
    \/ \E out \in LinkLists : FetchPage(TRUE, out)
    \/ FetchPage(FALSE, <<>>)
    \/ StartScrape
    \/ \E k \in 1..MaxConcurrency : StaggerElapsed(k)
    \/ \E k \in 1..MaxConcurrency, ok \in BOOLEAN : ScrapeSettle(k, ok)
    \/ ScrapeJoin
    \/ ScrapeNextBatch

\* a run of the scoring job or of scrapeMultipleDoctors that nothing
\* interrupts from outside
LiveInit ==
    /\ Init
    /\ prog \in {"evaluator", "scraper"}
    /\ Len(profiles) <= MaxLiveProfiles

LiveNext == EvaluatorStep \/ ScraperStep

\* the two jobs under the proviso that every awaited operation settles
LiveSpec ==
    LiveInit /\ [][LiveNext]_vars /\ WF_vars(EvaluatorStep) /\ WF_vars(ScraperStep)

(***************************************************************************)
(* Properties                                                              *)
(***************************************************************************)
UrlsOf(recs) == {r.url : r \in Range(recs)}

UrlSeq(recs) == [k \in DOMAIN recs |-> recs[k].url]

IsFailure(r) == r.error # <<>>

InputUrls == {profiles[k].url : k \in DOMAIN profiles}

AllHaveData == \A k \in DOMAIN profiles : profiles[k].data # "null"

JobEnded == prog = "evaluator" /\ pc \in {"done", "exited"}

\* the scorer answered as a function of the profile: equal urls, equal records
DeterministicScorer ==
    \A r1, r2 \in Range(file) : r1.url = r2.url => r1 = r2

RecordOf(u) == CHOOSE r \in Range(file) : r.url = u

\* the file an uninterrupted run on an absent output file leaves behind when
\* the scorer yields RecordOf for every profile
UninterruptedFinal ==
    IF profiles = <<>> THEN <<>>
    ELSE SortByScore([k \in DOMAIN profiles |-> RecordOf(profiles[k].url)])

\* a run that was never interrupted ends with UninterruptedFinal
UninterruptedRunEndsThere ==
    (JobEnded /\ runs = 1 /\ AllHaveData /\ DeterministicScorer)
        => file = UninterruptedFinal

\* C1: a job terminated after the checkpoint write of some batch and run
\* again on the same input ends with the same file, records and order, as
\* an uninterrupted run (scorer deterministic per profile).
C1_ResumeIdempotent ==
    (JobEnded /\ kills # <<>> /\ AllHaveData /\ DeterministicScorer)
        => file = UninterruptedFinal

\* C2: no scoring call is issued for a url present in the checkpoint loaded
\* at startup, success or failure record alike; only profiles absent from
\* it are processed, and when none is absent no call is made.
C2_CheckpointedNeverRescored ==
    prog = "evaluator" =>
        /\ scored \cap UrlsOf(loaded) = {}
        /\ scored \subseteq InputUrls
        /\ (InputUrls \subseteq UrlsOf(loaded) => scored = {})
        /\ (pc = "exited" => scored = {})

C2_Witness ==
    /\ prog = "evaluator"
    /\ \E r \in Range(loaded) : IsFailure(r)
    /\ \E r \in Range(loaded) : ~IsFailure(r)
    /\ scored # {}
    /\ pc = "done"

\* C3: after the job completes the persisted state holds exactly one record
\* per submitted item: N records for N items, unique urls, each an input url.
C3_CheckpointComplete ==
    JobEnded =>
        LET mine(r) == r.url \in InputUrls
            recs == SelectSeq(file, mine)
        IN  /\ Len(recs) = Len(profiles)
            /\ NoDuplicates(UrlSeq(recs))
            /\ UrlsOf(recs) = InputUrls

\* C4: no checkpoint snapshot written by the job holds two records with the
\* same url.
C4_SnapshotUrlsUnique ==
    prog = "evaluator" => NoDuplicates(UrlSeq(file))

\* C5: no per-item error leaves analyzeTherapist or rejects processBatch:
\* every promise resolves to a record and main never fails on an item.
C5_NoItemErrorEscapes ==
    prog = "evaluator" =>
        /\ pc # "failed"
        /\ \A k \in DOMAIN tasks : tasks[k].st # "rejected"

\* C6: a profile whose scoring call fails on every attempt gets exactly
\* MAX_RETRIES + 1 calls and then a failure record; never more calls, never
\* the failure record after fewer.
C6_RetryExhaustion ==
    \A k \in DOMAIN tasks :
        /\ tasks[k].calls <= MAX_RETRIES + 1
        /\ (tasks[k].st = "done" /\ IsFailure(tasks[k].rec[1]))
              => (tasks[k].calls = MAX_RETRIES + 1 /\ tasks[k].fails = tasks[k].calls)
        /\ tasks[k].fails = MAX_RETRIES + 1
              => (tasks[k].st = "done" /\ IsFailure(tasks[k].rec[1]))

C6_Witness ==
    \E k \in DOMAIN tasks :
        /\ tasks[k].st = "done"
        /\ IsFailure(tasks[k].rec[1])
        /\ tasks[k].calls = 4
        /\ tasks[k].fails = 4

C7_SuccessState ==
    \A k \in DOMAIN tasks :
        (tasks[k].st = "done" /\ ~IsFailure(tasks[k].rec[1])) =>
            /\ tasks[k].fails <= MAX_RETRIES
            /\ tasks[k].calls = tasks[k].fails + 1
            /\ tasks[k].last[1].kind = "json"
            /\ tasks[k].rec[1].score = tasks[k].last[1].score

C7_NoCallAfterSettled ==
    \A k \in DOMAIN tasks :
        (tasks[k].st = "done" /\ k \in DOMAIN tasks') => tasks'[k] = tasks[k]

\* C7: a profile whose call fails k times and then succeeds gets the success
\* record with that attempt's score after exactly k + 1 calls, and no call
\* is made for it afterwards.
C7_StopsAtFirstSuccess == []C7_SuccessState /\ [][C7_NoCallAfterSettled]_vars

C7_Witness ==
    \E k \in DOMAIN tasks :
        /\ tasks[k].st = "done"
        /\ ~IsFailure(tasks[k].rec[1])
        /\ tasks[k].fails = 2
        /\ tasks[k].calls = 3

InFlightScrapes == Cardinality({k \in DOMAIN stasks : stasks[k].st = "scraping"})

InFlightAnalyses ==
    Cardinality({k \in DOMAIN tasks : tasks[k].st \in {"calling", "sleeping"}})

\* C8: at most `concurrency` scrapeDoctorInfo calls and at most BATCH_SIZE
\* analyzeTherapist operations are in flight in any reachable state.
C8_ConcurrencyCeiling ==
    /\ InFlightScrapes <= concurrency
    /\ InFlightAnalyses <= BATCH_SIZE

C8_Witness ==
    /\ prog = "scraper"
    /\ concurrency = 2
    /\ InFlightScrapes = concurrency
    /\ Len(allPages[pageIdx].links) > si + concurrency

\* the records analyzeTherapist has returned: those of the current batch and
\* those the evaluator holds in results and in its output file
ReturnedRecords ==
    {tasks[k].rec[1] : k \in {l \in DOMAIN tasks : tasks[l].rec # <<>>}}
        \cup (IF prog = "evaluator" THEN Range(results) \cup Range(file) ELSE {})

\* C9: every record analyzeTherapist returns has 0 <= score <= 100; the
\* record of an exhausted retry budget has score 0, confidence low, an error
\* and a non-empty summary naming the failure; a response with a score
\* outside [0,100] never becomes a success record.
C9_ScoreBounds ==
    /\ \A r \in ReturnedRecords :
          /\ 0 <= r.score /\ r.score <= 100
          /\ IsFailure(r) =>
                /\ r.score = 0
                /\ r.confidence = "low"
                /\ Len(r.summary) > 0
                /\ r.summary = "ANALYSIS FAILED: " \o r.error[1]
    /\ \A k \in DOMAIN tasks :
          (tasks[k].last # <<>> /\ tasks[k].last[1].kind = "json"
              /\ (tasks[k].last[1].score < 0 \/ tasks[k].last[1].score > 100))
            => IsFailure(tasks[k].rec[1])

C9_Witness ==
    \E k \in DOMAIN tasks :
        /\ tasks[k].st = "done"
        /\ IsFailure(tasks[k].rec[1])
        /\ tasks[k].last[1] = [kind |-> "json", score |-> 101]

RECURSIVE FlattenLinks(_)
FlattenLinks(pages) ==
    IF pages = <<>> THEN <<>>
    ELSE Head(pages).links \o FlattenLinks(Tail(pages))

\* C10: no identifier occurs twice in the output of
\* getDoctorLinksWithPagination, across page groups or inside one group.
C10_DiscovererDedup ==
    prog = "scraper" => NoDuplicates(FlattenLinks(allPages))

FetchedOk == {k \in DOMAIN fetchLog : fetchLog[k].ok}

RawUnion == UNION {fetchLog[k].raw : k \in FetchedOk}

\* the lowest-numbered successfully fetched page whose raw links hold l
FirstPage(l) ==
    LET ps == {fetchLog[k].pageNumber : k \in {j \in FetchedOk : l \in fetchLog[j].raw}}
    IN  CHOOSE m \in ps : \A n \in ps : m <= n

\* C11: the identifiers emitted by the walk are the union of the raw links
\* of the pages fetched successfully, each in the group tagged with the
\* first page it appears on; a page with no new identifier has no group.
C11_DiscovererCoverage ==
    prog = "scraper" =>
        /\ Range(FlattenLinks(allPages)) = RawUnion
        /\ \A g \in DOMAIN allPages :
              /\ Len(allPages[g].links) > 0
              /\ \A l \in Range(allPages[g].links) :
                    allPages[g].pageNumber = FirstPage(l)
        /\ \A k \in FetchedOk :
              (\E g \in DOMAIN allPages :
                    allPages[g].pageNumber = fetchLog[k].pageNumber)
                <=> (\E l \in fetchLog[k].raw : FirstPage(l) = fetchLog[k].pageNumber)

C11_Witness ==
    /\ prog = "scraper"
    /\ spc = "walked"
    /\ Len(fetchLog) = 3
    /\ \A k \in 1..3 : fetchLog[k].ok
    /\ fetchLog[2].raw = fetchLog[1].raw
    /\ Len(allPages) = 2
    /\ allPages[2].pageNumber = 3

\* C12: after a successfully fetched page with zero raw links no further
\* page is fetched; a page with raw links, even all of them duplicates,
\* does not end the walk before maxPages.
C12_EarlyStop ==
    prog = "scraper" =>
        /\ \A k \in DOMAIN fetchLog : fetchLog[k].pageNumber = k
        /\ \A k \in DOMAIN fetchLog :
              (fetchLog[k].ok /\ fetchLog[k].count = 0)
                => (k = Len(fetchLog) /\ spc # "walk")
        /\ (fetchLog # <<>> /\ spc # "walk"
              /\ fetchLog[Len(fetchLog)].ok /\ fetchLog[Len(fetchLog)].count > 0)
                => Len(fetchLog) = maxPages

C12_Witness ==
    /\ prog = "scraper"
    /\ maxPages = 3
    /\ spc = "walked"
    /\ Len(fetchLog) = 2
    /\ fetchLog[1].count > 0
    /\ fetchLog[2].ok
    /\ fetchLog[2].count = 0

\* the profiles of batches 1..k of this run, in order
RECURSIVE FinishedItems(_)
FinishedItems(k) == IF k = 0 THEN <<>> ELSE FinishedItems(k - 1) \o batches[k]

\* the records of the file that follow the ones loaded at startup
WrittenThisRun == SubSeq(file, Len(loaded) + 1, Len(file))

\* the file is the loaded records followed by one record per item of batches
\* 1..k, in order
FileHoldsBatches(k) ==
    /\ fileSyntax = "array"
    /\ Len(file) = Len(loaded) + Len(FinishedItems(k))
    /\ SubSeq(file, 1, Len(loaded)) = loaded
    /\ UrlSeq(WrittenThisRun) = UrlSeq(FinishedItems(k))

C14_ChunkBoundarySerialized ==
    (prog = "evaluator" /\ tasks # <<>>) =>
        /\ pc \in {"await", "failed"}
        /\ DOMAIN tasks = DOMAIN batches[bi + 1]
        /\ bi > 0 => (file = results /\ FileHoldsBatches(bi))

\* the second batch is being scored after the first was written
C14_Witness ==
    /\ prog = "evaluator"
    /\ pc = "await"
    /\ bi = 1
    /\ \E k \in DOMAIN tasks : tasks[k].calls > 0
    /\ Len(file) = BATCH_SIZE

\* C15: after the write that follows batch k the output file holds the
\* records loaded at startup, unchanged, followed by the records of batches
\* 1..k and of no other item; and no write drops a record of the file.
C15_SnapshotConsistent ==
    /\ []((prog = "evaluator" /\ pc \in {"delay", "finalwrite"})
             => FileHoldsBatches(bi + 1))
    /\ [][prog = "evaluator" =>
             (Range(file) \subseteq Range(file') /\ Len(file) <= Len(file'))]_vars

\* a resumed run wrote its batch behind the records it had loaded
C15_Witness ==
    /\ prog = "evaluator"
    /\ pc = "finalwrite"
    /\ runs = 2
    /\ loaded # <<>>
    /\ Len(file) = Len(loaded) + 1

\* C16: the extraction job persists the whole result set after every batch:
\* the stored file holds the outcomes of every batch completed so far.
C16_PersistedAfterEveryBatch ==
    (prog = "scraper" /\ spc \in {"batch", "wait"})
        => Range(sresults) \subseteq Range(doctorFile)

\* C17: the extraction job never calls the extractor for an identifier that
\* is present in the result set stored before the session.
C17_StoredNeverExtracted ==
    (prog = "scraper" /\ spc # "saved")
        => \A u \in UrlsOf(doctorFile) : scrapeCalls[u] = 0

Occurrences(seq, x) == Cardinality({k \in DOMAIN seq : seq[k] = x})

\* C18: every link fed into a batch has exactly one DoctorResult in the list
\* scrapeMultipleDoctors returns.
C18_ExactlyOneResultPerLink ==
    (prog = "scraper" /\ spc \in {"returned", "saved"}) =>
        \A u \in Links :
            Occurrences(UrlSeq(sresults), u) = Occurrences(FlattenLinks(allPages), u)

\* C19: no url is extracted twice in one session and the returned list holds
\* no two records with the same url.
C19_NoUrlExtractedTwice ==
    prog = "scraper" =>
        /\ \A u \in Links : scrapeCalls[u] <= 1
        /\ NoDuplicates(UrlSeq(sresults))

SettledScrapes ==
    {stasks[k].rec[1] : k \in {l \in DOMAIN stasks : stasks[l].rec # <<>>}}
        \cup Range(sresults)

\* C20: an extraction that throws yields the record {url, data: null, error,
\* pageNumber} and cancels nothing: every link of every page group is still
\* attempted and has a record in the returned list.
C20_FailureIsolated ==
    prog = "scraper" =>
        /\ \A r \in SettledScrapes :
              /\ (r.data = "null") <=> IsFailure(r)
              /\ \E g \in DOMAIN allPages :
                    /\ allPages[g].pageNumber = r.pageNumber
                    /\ r.url \in Range(allPages[g].links)
        /\ spc \in {"returned", "saved"} =>
              /\ UrlsOf(sresults) = Range(FlattenLinks(allPages))
              /\ \A u \in Range(FlattenLinks(allPages)) : scrapeCalls[u] >= 1

C20_Witness ==
    /\ prog = "scraper"
    /\ spc = "returned"
    /\ concurrency = 2
    /\ Len(sresults) = 3
    /\ IsFailure(sresults[1])
    /\ ~IsFailure(sresults[2])
    /\ sresults[2].pageNumber = sresults[1].pageNumber
    /\ ~IsFailure(sresults[3])
    /\ sresults[3].pageNumber > sresults[1].pageNumber

\* C21: the failure record returned after the retry budget is used up
\* carries the message of the last error and the number of attempts made.
C21_FailureEmbedsAttempts ==
    prog = "evaluator" =>
        \A k \in DOMAIN tasks :
            (tasks[k].st = "done" /\ IsFailure(tasks[k].rec[1])) =>
                /\ tasks[k].rec[1].error = <<scoreTherapist(tasks[k].last[1]).message>>
                /\ "attempts" \in DOMAIN tasks[k].rec[1]
                /\ tasks[k].rec[1].attempts = tasks[k].calls

\* C22: a failure record for a url is produced by scrapeMultipleDoctors only
\* after the extraction of that url was retried at least once.
C22_ExtractionRetried ==
    prog = "scraper" =>
        \A k \in DOMAIN stasks :
            (stasks[k].st = "settled" /\ IsFailure(stasks[k].rec[1]))
                => scrapeCalls[stasks[k].rec[1].url] > 1

IsSortedByScore(recs) ==
    \A k \in 1..(Len(recs) - 1) : recs[k].score >= recs[k + 1].score

\* s holds the records of t ordered by score descending, records of equal
\* score in the order they have in t
IsStableSortOf(s, t) ==
    /\ Len(s) = Len(t)
    /\ IsSortedByScore(s)
    /\ \A v \in {r.score : r \in Range(t)} :
          LET same(r) == r.score = v
          IN  SelectSeq(s, same) = SelectSeq(t, same)

\* C23: whenever the scoring job ends, with batches processed or with
\* nothing pending, the output file is ordered by score descending, ties in
\* insertion order, and was written once more after the sort.
C23_DoneIsSorted ==
    prog = "evaluator" =>
        /\ pc = "finalwrite" => IsStableSortOf(results, file)
        /\ pc = "done" => file = results
        /\ JobEnded => IsSortedByScore(file)

\* the responses that are not a thrown error and not a JSON text of the
\* expected shape
MalformedResponses ==
    {resp \in Responses :
        \/ resp.kind \in {"empty", "badjson"}
        \/ resp.kind = "json" /\ (resp.score < 0 \/ resp.score > 100)}

ThrownError == [kind |-> "throw", score |-> 0]

\* C25: an empty text, a text that is not JSON and a JSON outside the schema
\* are never accepted: from every state with a call in flight such a response
\* moves the item exactly where a thrown remote error moves it (a failed
\* attempt, then the retry sleep or the failure record), and a record whose
\* last response was malformed is a failure record.
C25_MalformedIsRemoteError ==
    prog = "evaluator" =>
        \A k \in DOMAIN tasks :
              /\ tasks[k].st = "calling" =>
                    \A resp \in MalformedResponses :
                        LET p == batches[bi + 1][k]
                            a == Settle(p, tasks[k], resp)
                            b == Settle(p, tasks[k], ThrownError)
                        IN  /\ a.st = b.st
                            /\ a.st \in {"sleeping", "done"}
                            /\ a.rc = b.rc
                            /\ a.calls = b.calls
                            /\ a.fails = tasks[k].fails + 1
                            /\ b.fails = a.fails
                            /\ a.st = "done" => IsFailure(a.rec[1])
              /\ (tasks[k].st = "done" /\ tasks[k].last[1] \in MalformedResponses)
                    => (IsFailure(tasks[k].rec[1])
                        /\ tasks[k].fails = MAX_RETRIES + 1)

\* an item whose every attempt got an empty text ended with a failure record
C25_Witness ==
    /\ prog = "evaluator"
    /\ \E k \in DOMAIN tasks :
          /\ tasks[k].st = "done"
          /\ tasks[k].last[1].kind = "empty"
          /\ IsFailure(tasks[k].rec[1])
          /\ tasks[k].calls = MAX_RETRIES + 1
    /\ \E k \in DOMAIN tasks : tasks[k].st = "calling" /\ tasks[k].rc > 0

\* C29: whatever the existing output file holds that is not an array of
\* records (text that is not JSON, or JSON that is not an array), the job
\* takes the checkpoint as absent and goes on to process the input.
C29_LoadNeverBlocks ==
    [][(prog = "evaluator" /\ apiKey /\ pc = "start" /\ fileSyntax # "array") =>
          /\ pc' \in {"await", "exited"}
          /\ loaded' = <<>>
          /\ profiles # <<>> => pc' = "await"]_vars

\* C30: retry attempts are consumed by failed remote calls only: an item is
\* in its retry sleep only after a call of its current attempt failed, and
\* its retryCount never exceeds the number of failed calls.
C30_OnlyRemoteFailuresRetried ==
    prog = "evaluator" =>
        \A k \in DOMAIN tasks :
            /\ tasks[k].rc <= tasks[k].fails
            /\ tasks[k].st = "sleeping" => tasks[k].fails = tasks[k].rc + 1

\* C26: a failed page fetch is not fatal: the groups collected so far are
\* kept and the next page, if any, is fetched; when every fetch fails the
\* walk returns the empty list and scrapeMultipleDoctors returns no result.
C26_PageFailureNotFatal ==
    /\ []((prog = "scraper" /\ spc # "walk") =>
             /\ \A p \in DOMAIN fetchLog :
                   (~fetchLog[p].ok /\ p < maxPages) => Len(fetchLog) > p
             /\ ((\A p \in DOMAIN fetchLog : ~fetchLog[p].ok) /\ spc # "walked")
                   => (Len(fetchLog) = maxPages /\ allPages = <<>>
                       /\ spc \in {"returned", "saved"} /\ sresults = <<>>))
    /\ [][(prog = "scraper" /\ Len(fetchLog') > Len(fetchLog)
             /\ ~fetchLog'[Len(fetchLog')].ok)
            => (allPages' = allPages /\ allUniqueUrls' = allUniqueUrls)]_vars

\* page 1 loaded with links, page 2 failed, page 3 was still fetched and its
\* new link was collected behind the group of page 1
C26_Witness ==
    /\ prog = "scraper"
    /\ spc = "walked"
    /\ Len(fetchLog) = 3
    /\ fetchLog[1].ok /\ ~fetchLog[2].ok /\ fetchLog[3].ok
    /\ Len(allPages) = 2
    /\ allPages[1].pageNumber = 1
    /\ allPages[2].pageNumber = 3

\* C27: every page opened by scrapeDoctorInfo is closed when the call
\* settles, on return and on throw, so no per-item page is open between
\* batches or after the return; the browser is closed on every return of
\* scrapeMultipleDoctors, the early return included.
C27_BrowsingContextsReleased ==
    prog = "scraper" =>
        /\ openPages = InFlightScrapes
        /\ spc # "batch" => openPages = 0
        /\ (\A k \in DOMAIN stasks : stasks[k].st \in {"settled", "skipped"})
              => openPages = 0
        /\ spc \in {"returned", "saved"} <=> ~browserOpen

\* a session with a failed and a successful extraction has returned
C27_Witness ==
    /\ prog = "scraper"
    /\ spc = "returned"
    /\ \E k \in DOMAIN sresults : IsFailure(sresults[k])
    /\ \E k \in DOMAIN sresults : ~IsFailure(sresults[k])
    /\ openPages = 0
    /\ ~browserOpen

\* scrapeMultipleDoctors returned early because the walk found no group
C27_EarlyReturn ==
    prog = "scraper" /\ spc = "returned" /\ allPages = <<>> /\ ~browserOpen

\* C24: with GEMINI_API_KEY absent, the evaluator and the sequential scorer
\* issue no remote call, get no further than the key check (no input read,
\* no file written) and the process ends with a non-zero exit status.
C24_MissingKeyIsFatal ==
    (prog \in {"evaluator", "sequential"} /\ ~apiKey) =>
        /\ scored = {}
        /\ tasks = <<>>
        /\ results = <<>>
        /\ file = <<>>
        /\ pc \in {"start", "nokey"}
        /\ pc = "nokey" => (exitCode # <<>> /\ exitCode[1] # 0)

\* the evaluator stopped at the key check with status 1
C24_EvaluatorExitsNonZero ==
    prog = "evaluator" /\ ~apiKey /\ pc = "nokey" /\ exitCode = <<1>>

\* the values the extraction records of a url hold for a field
FieldValues(url, field) ==
    {doctorFile[k].data[1][field] :
        k \in {l \in DOMAIN doctorFile :
                 /\ doctorFile[l].url = url
                 /\ doctorFile[l].data # <<>>
                 /\ doctorFile[l].data[1][field].t # "undefined"}}

\* some extraction record of the url lacks the field, or the url has none
FieldAbsent(url, field) ==
    \/ \A k \in DOMAIN doctorFile : doctorFile[k].url # url
    \/ \E k \in DOMAIN doctorFile :
          /\ doctorFile[k].url = url
          /\ \/ doctorFile[k].data = <<>>
             \/ doctorFile[k].data[1][field].t = "undefined"

\* C28: /api/therapists answers one row per scoring record, in the order of
\* the scoring file; rating, reviewCount and avatar of a row are the value an
\* extraction record of the same url holds for the field, and null only when
\* the record or the field is absent.
C28_LeftJoin ==
    (prog = "server" /\ pc = "served") =>
        LET rows == mergedData[1]
        IN  /\ Len(rows) = Len(file)
            /\ \A k \in DOMAIN rows :
                  /\ rows[k].url = file[k].url
                  /\ rows[k].score = file[k].score
                  /\ \A f \in Fields :
                        \/ rows[k][f] \in FieldValues(rows[k].url, f)
                        \/ rows[k][f] = Null /\ FieldAbsent(rows[k].url, f)

\* a row was joined with a record that holds a value for each field
C28_JoinedRow ==
    /\ prog = "server"
    /\ pc = "served"
    /\ \E k \in DOMAIN mergedData[1] :
          /\ mergedData[1][k].rating = Num(4)
          /\ mergedData[1][k].reviewCount = Num(12)
          /\ mergedData[1][k].avatar = Str(1)

\* C31: when the sequential scorer has finished, its output file holds one
\* entry per attempted profile, success or failure: every url for which the
\* remote call was issued has a record, and there are as many records as
\* profiles.
C31_OneEntryPerAttempted ==
    (prog = "sequential" /\ pc = "done") =>
        /\ scored \subseteq UrlsOf(file)
        /\ Len(file) = Len(profiles)

\* the indexes of the batch items that settled with a record, and the m-th
\* of them in input order
SettledIndexes == {k \in DOMAIN stasks : stasks[k].st = "settled"}

NthSettled(m) ==
    CHOOSE k \in SettledIndexes : Cardinality({j \in SettledIndexes : j <= k}) = m

\* the join of an evaluator batch appends the records of its items in the
\* order of the items
EvaluatorJoinInInputOrder ==
    (prog = "evaluator" /\ pc = "await"
        /\ \A k \in DOMAIN tasks : tasks[k].st = "done")
    => /\ Len(results') = Len(results) + Len(batches[bi + 1])
       /\ SubSeq(results', 1, Len(results)) = results
       /\ \A k \in DOMAIN batches[bi + 1] :
             /\ results'[Len(results) + k] = tasks[k].rec[1]
             /\ results'[Len(results) + k].url = batches[bi + 1][k].url

\* the join of a scraper batch appends the records of its items that were
\* not skipped, in the order of the items
ScraperJoinInInputOrder ==
    (prog = "scraper" /\ spc = "batch"
        /\ \A k \in DOMAIN stasks : stasks[k].st \in {"settled", "skipped"})
    => /\ Len(sresults') = Len(sresults) + Cardinality(SettledIndexes)
       /\ SubSeq(sresults', 1, Len(sresults)) = sresults
       /\ \A m \in 1..Cardinality(SettledIndexes) :
             /\ sresults'[Len(sresults) + m] = stasks[NthSettled(m)].rec[1]
             /\ sresults'[Len(sresults) + m].url =
                    ScrapeBatch(allPages[pageIdx].links, si, concurrency)[NthSettled(m)]

\* C32: the records a batch appends are in the order of the batch's items,
\* whatever the order in which the items completed and however many retries
\* each needed, in the evaluator and in scrapeMultipleDoctors; so the urls of
\* the results after each batch are those of the finished batches in input
\* order, independent of the interleaving.
C32_BatchOrderIsInputOrder ==
    /\ [][EvaluatorJoinInInputOrder /\ ScraperJoinInInputOrder]_vars
    /\ []((prog = "evaluator" /\ pc = "write") =>
             UrlSeq(SubSeq(results, Len(loaded) + 1, Len(results)))
                 = UrlSeq(FinishedItems(bi + 1)))

\* the first item of a batch used up its retries and completed after the
\* second one; its failure record still comes first
C32_Witness ==
    /\ prog = "evaluator"
    /\ pc = "write"
    /\ outOfOrder
    /\ loaded = <<>>
    /\ Len(results) >= 2
    /\ IsFailure(results[1])
    /\ ~IsFailure(results[2])

\* a scraper batch whose second item settled first was joined
C32_ScraperOutOfOrder ==
    /\ prog = "scraper"
    /\ spc \in {"wait", "returned"}
    /\ outOfOrder
    /\ Len(sresults) >= 2

\* C33: with every remote call settling, a started scoring job ends: no item
\* makes more than MAX_RETRIES + 1 calls, and the job reaches the final sort
\* and write or the early exit.
C33_ScoringJobTerminates ==
    /\ [](prog = "evaluator" =>
            \A k \in DOMAIN tasks : tasks[k].calls <= MAX_RETRIES + 1)
    /\ (prog = "evaluator" /\ apiKey /\ fileSyntax # "object" /\ pc = "start")
           ~> (pc \in {"done", "exited"})

\* the same for inputs in which every profile has data
C33_TerminatesWhenAllHaveData ==
    (prog = "evaluator" /\ apiKey /\ fileSyntax # "object" /\ pc = "start"
        /\ AllHaveData)
           ~> (pc \in {"done", "exited"})

\* C34: with every extraction settling, scrapeMultipleDoctors returns: the
\* walk fetches at most maxPages listing pages, the batch index grows by
\* concurrency at every iteration, and every page group is consumed.
C34_ScraperTerminates ==
    /\ [](prog = "scraper" =>
            /\ Len(fetchLog) <= maxPages
            /\ spc = "returned" => (allPages = <<>> \/ pageIdx = Len(allPages))
            /\ spc = "returned"
                  => UrlsOf(sresults) = UNION {Range(allPages[k].links) :
                                                  k \in DOMAIN allPages})
    /\ [][(prog = "scraper" /\ si' # si) =>
             \/ si' = si + concurrency /\ pageIdx' = pageIdx
             \/ si' = 0 /\ pageIdx' = pageIdx + 1]_vars
    /\ (prog = "scraper") ~> (spc \in {"returned", "saved"})

\* a walk of two page groups was scraped one link at a time and returned
C34_Witness ==
    /\ prog = "scraper"
    /\ spc = "returned"
    /\ concurrency = 1
    /\ Len(allPages) = 2
    /\ pageIdx = 2
    /\ si = 1
    /\ Len(sresults) = 3

TypeOK == pc \in {"start", "await", "write", "delay", "finalwrite", "done",
                  "exited", "failed", "killed", "crashed", "nokey", "served"}
====
